---- MODULE Spec2Model ----
(***************************************************************************)
(* SettingsService of cezerin (src/api/server/services/settings/           *)
(* settings.js): the defaults table, the merge/projection of a persisted   *)
(* record into a view, the validation of update inputs, the write path     *)
(* (count, default-seed insert, upsert, re-read) and the logo lifecycle.   *)
(*                                                                         *)
(* Every promise chain is cut at its asynchronous boundaries: a repository *)
(* or filesystem operation executes in one step, the callback that         *)
(* receives its result runs in a later step, and steps of different calls  *)
(* interleave freely.                                                      *)
(***************************************************************************)
EXTENDS Integers, Sequences, FiniteSets, TLC

VARIABLES
    defaultSettings,  \* this.defaultSettings
    coll,             \* the records of collection 'settings', in natural order
    nextId,           \* the next ObjectId to be generated
    files,            \* the names present in the upload directory
    writing,          \* the names whose content is not completely written
    upd,              \* the updateSettings calls in flight
    get,              \* the getSettings call in flight
    del,              \* the deleteLogo call in flight
    upl,              \* the uploadLogo request in flight
    calls,            \* the number of calls issued so far
    res               \* the response uploadLogo sent last

vars == <<defaultSettings, coll, nextId, files, writing, upd, get, del, upl,
          calls, res>>

(***************************************************************************)
(* Bounds.                                                                 *)
(***************************************************************************)
\* total number of service calls (getSettings, updateSettings, deleteLogo,
\* uploadLogo) the environment issues in one behaviour
MaxCalls == 2
\* number of file parts one upload request may carry
MaxParts == 2

(***************************************************************************)
(* JavaScript values.  Every value is a record of the same shape, so that  *)
(* values of different JavaScript types can be compared.                   *)
(***************************************************************************)
Str(x) == [t |-> "str", s |-> x, n |-> 0]
Num(i) == [t |-> "num", s |-> "", n |-> i]
Bool(b) == [t |-> "bool", s |-> "", n |-> IF b THEN 1 ELSE 0]
Oid(i) == [t |-> "oid", s |-> "", n |-> i]
Null == [t |-> "null", s |-> "", n |-> 0]
Undef == [t |-> "undefined", s |-> "", n |-> 0]
NaN == [t |-> "nan", s |-> "", n |-> 0]

\* JavaScript truthiness
Truthy(v) ==
    CASE v.t = "str" -> v.s # ""
      [] v.t = "num" -> v.n # 0
      [] v.t = "bool" -> v.n = 1
      [] v.t = "oid" -> TRUE
      [] OTHER -> FALSE

\* a JavaScript object: a function from its own keys to values
EmptyObj == [k \in {} |-> Undef]

\* Object.assign(target, source): source's keys overwrite target's
Assign(target, source) ==
    [k \in DOMAIN target \cup DOMAIN source |->
        IF k \in DOMAIN source THEN source[k] ELSE target[k]]

\* obj[key] of JavaScript: undefined when the key is absent
Prop(obj, key) == IF key \in DOMAIN obj THEN obj[key] ELSE Undef

(***************************************************************************)
(* The defaults table set in the constructor.                              *)
(***************************************************************************)
StringFields ==
    {"language", "currency_code", "domain", "currency_symbol",
     "currency_format", "thousand_separator", "decimal_separator",
     "timezone", "date_format", "time_format", "default_shipping_country",
     "default_shipping_state", "default_shipping_city",
     "default_product_sorting", "product_fields", "weight_unit",
     "length_unit", "logo_file", "order_confirmation_copy_to"}

Fields == StringFields \cup {"decimal_number", "products_limit", "hide_billing_address"}

constructor ==
    [k \in Fields |->
        CASE k = "domain" -> Str("")
          [] k = "logo_file" -> Null
          [] k = "language" -> Str("en")
          [] k = "currency_code" -> Str("USD")
          [] k = "currency_symbol" -> Str("$")
          [] k = "currency_format" -> Str("${amount}")
          [] k = "thousand_separator" -> Str(",")
          [] k = "decimal_separator" -> Str(".")
          [] k = "decimal_number" -> Num(2)
          [] k = "timezone" -> Str("Asia/Singapore")
          [] k = "date_format" -> Str("MMMM D, YYYY")
          [] k = "time_format" -> Str("h:mm a")
          [] k = "default_shipping_country" -> Str("SG")
          [] k = "default_shipping_state" -> Str("")
          [] k = "default_shipping_city" -> Str("")
          [] k = "default_product_sorting" -> Str("stock_status,price,position")
          [] k = "product_fields" -> Str("path,id,name,category_id,category_name,sku,images,enabled,discontinued,stock_status,stock_quantity,price,on_sale,regular_price,attributes,tags,position")
          [] k = "products_limit" -> Num(30)
          [] k = "weight_unit" -> Str("kg")
          [] k = "length_unit" -> Str("cm")
          [] k = "hide_billing_address" -> Bool(FALSE)
          [] k = "order_confirmation_copy_to" -> Str("")]

(***************************************************************************)
(* lib/parse: the coercion utilities.                                      *)
(***************************************************************************)
\* the numeric strings among the inputs, with the number parseFloat reads
NumericStrings == ("7" :> 7) @@ ("-5" :> (0 - 5)) @@ ("0" :> 0)

parseFloat(v) ==
    CASE v.t = "num" -> v
      [] v.t = "str" /\ v.s \in DOMAIN NumericStrings -> Num(NumericStrings[v.s])
      [] OTHER -> NaN

Digit(d) ==
    CASE d = 0 -> "0" [] d = 1 -> "1" [] d = 2 -> "2" [] d = 3 -> "3"
      [] d = 4 -> "4" [] d = 5 -> "5" [] d = 6 -> "6" [] d = 7 -> "7"
      [] d = 8 -> "8" [] d = 9 -> "9"

RECURSIVE NatToString(_)
NatToString(i) ==
    IF i < 10 THEN Digit(i) ELSE NatToString(i \div 10) \o Digit(i % 10)

\* value.toString() of a truthy primitive
toString(v) ==
    CASE v.t = "str" -> v.s
      [] v.t = "num" -> IF v.n < 0 THEN "-" \o NatToString(0 - v.n) ELSE NatToString(v.n)
      [] v.t = "bool" -> "true"

\* getString = value => (value || '').toString()
getString(v) == IF Truthy(v) THEN Str(toString(v)) ELSE Str("")

\* getNumberIfValid: parseFloat, null unless a finite number
getNumberIfValid(v) ==
    LET n == parseFloat(v) IN IF n.t = "num" THEN n ELSE Null

\* getNumberIfPositive: the number when it is valid and positive, else null
getNumberIfPositive(v) ==
    LET n == getNumberIfValid(v) IN
    IF Truthy(n) /\ n.n >= 0 THEN n ELSE Null

\* getBooleanIfValid(value, defaultValue)
getBooleanIfValid(v, defaultValue) ==
    IF v = Str("true") \/ v = Str("false") THEN Bool(v = Str("true"))
    ELSE IF v.t = "bool" THEN v ELSE defaultValue

\* a || b of JavaScript
OrElse(a, b) == IF Truthy(a) THEN a ELSE b

(***************************************************************************)
(* getValidDocumentForUpdate.                                              *)
(***************************************************************************)
\* CoerceField without the "|| 0" of decimal_number
CoerceField_noZeroDefault(key, v) ==
    CASE key \in StringFields -> getString(v)
      [] key = "decimal_number" -> getNumberIfPositive(v)
      [] key = "products_limit" -> getNumberIfPositive(v)
      [] key = "hide_billing_address" -> getBooleanIfValid(v, Bool(FALSE))

\* the switch on the key: the coercion of one value
CoerceField(key, v) ==
    CASE key \in StringFields -> getString(v)
      [] key = "decimal_number" -> OrElse(getNumberIfPositive(v), Num(0))
      [] key = "products_limit" -> getNumberIfPositive(v)
      [] key = "hide_billing_address" -> getBooleanIfValid(v, Bool(FALSE))

\* the keys of this.defaultSettings that the input defines
DefinedKeys(ds, data) == {k \in DOMAIN ds : Prop(data, k) # Undef}

\* The result is [kind, doc]: kind "error" when an Error object is RETURNED
\* (zero keys), "throw" when the switch reaches its default branch, "patch"
\* otherwise.  ds is this.defaultSettings at the time of the call.
getValidDocumentForUpdate(ds, data) ==
    IF DOMAIN data = {}
    THEN [kind |-> "error", doc |-> EmptyObj]
    ELSE IF \E k \in DefinedKeys(ds, data) : k \notin Fields
         THEN [kind |-> "throw", doc |-> EmptyObj]
         ELSE [kind |-> "patch",
               doc |-> [k \in DefinedKeys(ds, data) |-> CoerceField(k, data[k])]]

(***************************************************************************)
(* changeProperties.                                                       *)
(***************************************************************************)
\* settings.filesUploadUrl and settings.filesUploadPath of lib/settings
filesUploadUrl == ""
filesUploadPath == "public/content"

\* the origins of the absolute URLs used as domain
UrlOrigin ==
    ("http://shop.test" :> "http://shop.test") @@
    ("http://shop.test/store/index" :> "http://shop.test")

\* url.resolve(from, to) for a target that is an absolute path ("/...")
urlResolve(from, to) ==
    IF from \in DOMAIN UrlOrigin THEN UrlOrigin[from] \o to ELSE to

\* data.logo_file && data.logo_file.length > 0
HasLogoFile(data) ==
    LET f == Prop(data, "logo_file") IN Truthy(f) /\ f.t = "str" /\ Len(f.s) > 0

\* changeProperties with the sources of Object.assign in the wrong order:
\* the defaults overwrite the record
changeProperties_defaultsWin(ds, settingsFromDB) ==
    LET data == Assign(Assign(settingsFromDB, ds), "_id" :> Undef)
    IN IF HasLogoFile(data)
       THEN Assign(data, "logo" :>
                Str(urlResolve(data["domain"].s,
                               filesUploadUrl \o "/" \o data["logo_file"].s)))
       ELSE Assign(data, "logo" :> Null)

\* a changeProperties that takes the bare file name as logo and leaves a
\* null domain as it is
changeProperties_noResolve(ds, settingsFromDB) ==
    LET data == Assign(Assign(ds, settingsFromDB), "_id" :> Undef)
    IN IF HasLogoFile(data)
       THEN Assign(data, "logo" :> data["logo_file"])
       ELSE Assign(data, "logo" :> Null)

\* the record read by findOne is the empty object when findOne yields null
\* (Object.assign skips a null source).  The result is the object that
\* this.defaultSettings has become: Object.assign mutates its first argument
\* and returns it.
changeProperties(ds, settingsFromDB) ==
    LET assigned == Assign(Assign(ds, settingsFromDB), "_id" :> Undef)
        data == IF assigned["domain"] \in {Null, Undef}
                THEN Assign(assigned, "domain" :> Str(""))
                ELSE assigned
    IN IF HasLogoFile(data)
       THEN Assign(data, "logo" :>
                Str(urlResolve(data["domain"].s,
                               filesUploadUrl \o "/" \o data["logo_file"].s)))
       ELSE Assign(data, "logo" :> Null)

(***************************************************************************)
(* The repository (collection 'settings') and the MongoDB driver.          *)
(***************************************************************************)
\* findOne(): the first record in natural order, null (EmptyObj) when none
findOne(c) == IF Len(c) = 0 THEN EmptyObj ELSE c[1]

\* insertOne gives the document an _id when doc._id == null, in place
NeedsId(doc) == Prop(doc, "_id") \in {Null, Undef}

\* the unique index on _id
DuplicateKey(c, doc) == \E i \in 1..Len(c) : c[i]["_id"] = doc["_id"]

\* an update that replaces the record instead of setting fields
SetFirst_replace(c, patch) ==
    [c EXCEPT ![1] = Assign("_id" :> c[1]["_id"], patch)]

\* updateOne({}, {$set: patch}, {upsert: true}) on a non-empty collection
SetFirst(c, patch) == [c EXCEPT ![1] = Assign(c[1], patch)]

\* lib/utils getCorrectFileName: unsafe characters become '-'
getCorrectFileName(name) ==
    CASE name = "my logo.png" -> "my-logo.png"
      [] OTHER -> name

\* getErrorMessage(err): { error: true, message: err.toString() }
getErrorMessage(err) == ("error" :> Bool(TRUE)) @@ ("message" :> Str(err))

(***************************************************************************)
(* The calls in flight.                                                    *)
(***************************************************************************)
\* the updateSettings calls that can be in flight together: two from the
\* API, the one deleteLogo issues and the one uploadLogo issues
Updaters == {"api1", "api2", "del", "upl"}
ApiUpdaters == {"api1", "api2"}

\* the inputs of updateSettings
Inputs ==
    { EmptyObj,
      ("currency_code" :> Str("EUR")) @@ ("decimal_number" :> Num(0 - 5))
          @@ ("unrelated_field" :> Str("x")),
      ("products_limit" :> Str("abc")) @@ ("decimal_number" :> Str("abc"))
          @@ ("language" :> Undef) @@ ("hide_billing_address" :> Str("not-a-bool")),
      ("logo" :> Str("x.png")) @@ ("_id" :> Str("1")) @@ ("unrelated_field" :> Str("y")),
      ("logo_file" :> Str("x.png")) @@ ("domain" :> Str("http://shop.test/store/index"))
          @@ ("decimal_number" :> Str("7")) @@ ("products_limit" :> Num(50)) }

\* the file names a multipart request may carry, with their sizes
RawNames == {"x.png", "my logo.png"}
SizeOf(raw) == IF raw = "x.png" THEN 10 ELSE 20

\* the collection at start-up: empty, or a record written earlier that
\* holds only some of the fields
InitialCollections ==
    { << >>,
      << ("_id" :> Oid(0)) @@ ("currency_code" :> Str("GBP"))
            @@ ("decimal_number" :> Num(3)) >> }

Active(t) == t.pc # "idle"

IdleUpd ==
    [pc |-> "idle", data |-> EmptyObj, kind |-> "none", patch |-> EmptyObj,
     count |-> 0 - 1, doc |-> EmptyObj, snap |-> EmptyObj,
     pre |-> EmptyObj, alone |-> TRUE, seeded |-> FALSE]
IdleGet == [pc |-> "idle", snap |-> EmptyObj]
IdleDel == [pc |-> "idle", snap |-> EmptyObj, file |-> ""]
IdleUpl == [pc |-> "idle", file_name |-> Null, file_size |-> 0, cur |-> "",
            parts |-> 0]

\* no response sent yet
NoResponse == [status |-> 0, body |-> EmptyObj]

Init ==
    /\ defaultSettings = constructor
    /\ coll \in InitialCollections
    /\ nextId = 1
    /\ files = {}
    /\ writing = {}
    /\ upd = [u \in Updaters |-> IdleUpd]
    /\ get = IdleGet
    /\ del = IdleDel
    /\ upl = IdleUpl
    /\ calls = 0
    /\ res = NoResponse

(***************************************************************************)
(* updateSettings(data).                                                   *)
(***************************************************************************)
\* The synchronous part of updateSettings: the input is validated and, when
\* validation does not throw, countDocuments is sent.  The result is the
\* call as it is then in flight; pre is the view a read would have returned
\* at the time of the call, alone tells that no other updateSettings call
\* has been in flight together with this one.
updateSettings(data) ==
    LET r == getValidDocumentForUpdate(defaultSettings, data) IN
    [IdleUpd EXCEPT
        !.pc = IF r.kind = "throw" THEN "threw" ELSE "count",
        !.data = data, !.kind = r.kind, !.patch = r.doc,
        !.pre = changeProperties(defaultSettings, findOne(coll)),
        !.alone = \A v \in Updaters : ~Active(upd[v])]

\* the calls in flight after call u has been started as t
Started(u, t) ==
    [v \in Updaters |->
        IF v = u THEN (IF t.pc = "threw" THEN IdleUpd ELSE t)
        ELSE IF Active(upd[v]) /\ t.pc # "threw"
             THEN [upd[v] EXCEPT !.alone = FALSE]
             ELSE upd[v]]

\* The callback of deleteLogo is a promise reaction queued in the tick in
\* which the view was built: until it has run, only other promise reactions
\* (the callbacks of replies that arrived in the same tick) run; requests,
\* parser events and the callbacks of the filesystem wait for the next
\* tick, and what the repository and the filesystem do meanwhile is not
\* observed before then.
ReactionQueued == del.pc = "view"

\* a caller invokes updateSettings; "api2" stands for a call issued while
\* another API call is in flight
updateSettings_call(u, data) ==
    /\ ~ReactionQueued
    /\ calls < MaxCalls
    /\ ~Active(upd[u])
    /\ (u = "api2" => Active(upd["api1"]))
    /\ upd' = Started(u, updateSettings(data))
    /\ calls' = calls + 1
    /\ UNCHANGED <<defaultSettings, coll, nextId, files, writing, get, del, upl,
                   res>>

\* insertDefaultSettingsIfEmpty: the repository answers countDocuments({})
insertDefaultSettingsIfEmpty_count(u) ==
    /\ ~ReactionQueued
    /\ upd[u].pc = "count"
    /\ upd' = [upd EXCEPT ![u].pc = "counted", ![u].count = Len(coll)]
    /\ UNCHANGED <<defaultSettings, coll, nextId, files, writing, get, del,
                   upl, calls, res>>

\* the document insertOne(this.defaultSettings) sends, and what
\* this.defaultSettings becomes: the driver sets _id on the object it is
\* given when that object has none
insertOneDoc(ds, id) == IF NeedsId(ds) THEN Assign(ds, "_id" :> Oid(id)) ELSE ds

\* a count test that never seeds
IsEmptyCount_never(count) == FALSE

\* the condition of insertDefaultSettingsIfEmpty on the count
IsEmptyCount(count) == count = 0

\* insertDefaultSettingsIfEmpty: the callback of the count
insertDefaultSettingsIfEmpty_then(u) ==
    /\ upd[u].pc = "counted"
    /\ IF IsEmptyCount(upd[u].count)
       THEN /\ defaultSettings' = insertOneDoc(defaultSettings, nextId)
            /\ nextId' = IF NeedsId(defaultSettings) THEN nextId + 1 ELSE nextId
            /\ upd' = [upd EXCEPT ![u].pc = "insert", ![u].doc = defaultSettings']
       ELSE /\ upd' = [upd EXCEPT ![u].pc = "upsert"]
            /\ UNCHANGED <<defaultSettings, nextId>>
    /\ UNCHANGED <<coll, files, writing, get, del, upl, calls, res>>

\* the repository executes the default-seed insert; a duplicate _id rejects
\* it and with it the whole updateSettings promise
insertOne_exec(u) ==
    /\ ~ReactionQueued
    /\ upd[u].pc = "insert"
    /\ IF DuplicateKey(coll, upd[u].doc)
       THEN /\ upd' = [upd EXCEPT ![u] = IdleUpd]
            /\ UNCHANGED coll
       ELSE /\ coll' = Append(coll, upd[u].doc)
            /\ upd' = [upd EXCEPT ![u].pc = "upsert", ![u].seeded = TRUE,
                                  ![u].doc = EmptyObj]
    /\ UNCHANGED <<defaultSettings, nextId, files, writing, get, del, upl, calls,
                   res>>

\* the repository executes updateOne({}, {$set: settings}, {upsert: true}).
\* An Error object has no enumerable property: it is sent as an empty $set.
\* A server rejects an empty $set or takes it as a no-op, according to its
\* version.
updateOne_exec(u) ==
    /\ ~ReactionQueued
    /\ upd[u].pc = "upsert"
    /\ \/ /\ DOMAIN upd[u].patch = {}
          /\ upd' = [upd EXCEPT ![u] = IdleUpd]
          /\ UNCHANGED <<coll, nextId>>
       \/ /\ IF Len(coll) = 0
             THEN /\ coll' = << Assign(upd[u].patch, "_id" :> Oid(nextId)) >>
                  /\ nextId' = nextId + 1
             ELSE /\ coll' = SetFirst(coll, upd[u].patch)
                  /\ UNCHANGED nextId
          /\ upd' = [upd EXCEPT ![u].pc = "find"]
    /\ UNCHANGED <<defaultSettings, files, writing, get, del, upl, calls,
                   res>>

\* getSettings of updateSettings: the repository answers findOne()
updateSettings_findOne(u) ==
    /\ ~ReactionQueued
    /\ upd[u].pc = "find"
    /\ upd' = [upd EXCEPT ![u].pc = "found", ![u].snap = findOne(coll)]
    /\ UNCHANGED <<defaultSettings, coll, nextId, files, writing, get, del,
                   upl, calls, res>>

\* getSettings of updateSettings: changeProperties builds the view returned
updateSettings_return(u) ==
    /\ upd[u].pc = "found"
    /\ defaultSettings' = changeProperties(defaultSettings, upd[u].snap)
    /\ upd' = [upd EXCEPT ![u] = IdleUpd]
    /\ UNCHANGED <<coll, nextId, files, writing, get, del, upl, calls,
                   res>>

(***************************************************************************)
(* getSettings().                                                          *)
(***************************************************************************)
getSettings_call ==
    /\ ~ReactionQueued
    /\ calls < MaxCalls
    /\ get.pc = "idle"
    /\ get' = [IdleGet EXCEPT !.pc = "find"]
    /\ calls' = calls + 1
    /\ UNCHANGED <<defaultSettings, coll, nextId, files, writing, upd, del,
                   upl, res>>

getSettings_findOne ==
    /\ ~ReactionQueued
    /\ get.pc = "find"
    /\ get' = [get EXCEPT !.pc = "found", !.snap = findOne(coll)]
    /\ UNCHANGED <<defaultSettings, coll, nextId, files, writing, upd, del,
                   upl, calls, res>>

getSettings_return ==
    /\ get.pc = "found"
    /\ defaultSettings' = changeProperties(defaultSettings, get.snap)
    /\ get' = IdleGet
    /\ UNCHANGED <<coll, nextId, files, writing, upd, del, upl, calls,
                   res>>

(***************************************************************************)
(* deleteLogo().                                                           *)
(***************************************************************************)
deleteLogo_call ==
    /\ calls < MaxCalls
    /\ del.pc = "idle"
    /\ ~Active(upd["del"])
    /\ del' = [IdleDel EXCEPT !.pc = "find"]
    /\ calls' = calls + 1
    /\ UNCHANGED <<defaultSettings, coll, nextId, files, writing, upd, get,
                   upl, res>>

deleteLogo_findOne ==
    /\ del.pc = "find"
    /\ del' = [del EXCEPT !.pc = "found", !.snap = findOne(coll)]
    /\ UNCHANGED <<defaultSettings, coll, nextId, files, writing, upd, get,
                   upl, calls, res>>

\* the condition of deleteLogo on the view it has read
deleteLogo_hasLogo(data) == HasLogoFile(data)

\* the then-callback of getSettings inside deleteLogo: changeProperties
\* builds the view, which is this.defaultSettings itself, and the callback
\* of deleteLogo is queued behind the reactions already queued
deleteLogo_changeProperties ==
    /\ del.pc = "found"
    /\ defaultSettings' = changeProperties(defaultSettings, del.snap)
    /\ del' = [del EXCEPT !.pc = "view"]
    /\ UNCHANGED <<coll, nextId, files, writing, upd, get, upl, calls,
                   res>>

\* the callback of deleteLogo: data is this.defaultSettings as it is by
\* now; fs.unlink is requested when it names a logo file, and nothing else
\* is done when it names none
deleteLogo_then ==
    /\ del.pc = "view"
    /\ IF deleteLogo_hasLogo(defaultSettings)
       THEN del' = [del EXCEPT !.pc = "unlink", !.snap = EmptyObj,
                               !.file = defaultSettings["logo_file"].s]
       ELSE del' = IdleDel
    /\ UNCHANGED <<defaultSettings, coll, nextId, files, writing, upd, get,
                   upl, calls, res>>

\* the filesystem executes the unlink (it fails when the file is absent)
unlink_exec ==
    /\ del.pc = "unlink"
    /\ files' = files \ {del.file}
    /\ del' = [del EXCEPT !.pc = "unlinked"]
    /\ UNCHANGED <<defaultSettings, coll, nextId, writing, upd, get, upl,
                   calls, res>>

\* the callback of fs.unlink ignores err and clears the reference
unlink_callback ==
    /\ del.pc = "unlinked"
    /\ upd' = Started("del", updateSettings("logo_file" :> Null))
    /\ del' = IdleDel
    /\ UNCHANGED <<defaultSettings, coll, nextId, files, writing, get, upl, calls,
                   res>>

(***************************************************************************)
(* uploadLogo(req, res, next).                                             *)
(***************************************************************************)
uploadLogo_call ==
    /\ ~ReactionQueued
    /\ calls < MaxCalls
    /\ upl.pc = "idle"
    /\ ~Active(upd["upl"])
    /\ upl' = [IdleUpl EXCEPT !.pc = "parsing"]
    /\ calls' = calls + 1
    /\ UNCHANGED <<defaultSettings, coll, nextId, files, writing, upd, get,
                   del, res>>

\* 'fileBegin': the part is renamed and its file is opened for writing
uploadLogo_fileBegin(raw) ==
    /\ ~ReactionQueued
    /\ upl.pc = "parsing"
    /\ upl.parts < MaxParts
    /\ LET name == getCorrectFileName(raw) IN
        /\ upl' = [upl EXCEPT !.pc = "part", !.cur = name,
                              !.parts = upl.parts + 1]
        /\ files' = files \cup {name}
        /\ writing' = writing \cup {name}
    /\ UNCHANGED <<defaultSettings, coll, nextId, upd, get, del, calls, res>>

\* a 'file' handler that keeps the first file of the request
uploadLogo_file_keepFirst(raw) ==
    /\ ~ReactionQueued
    /\ upl.pc = "part"
    /\ getCorrectFileName(raw) = upl.cur
    /\ upl' = IF Truthy(upl.file_name)
              THEN [upl EXCEPT !.pc = "parsing", !.cur = ""]
              ELSE [upl EXCEPT !.pc = "parsing", !.file_name = Str(upl.cur),
                               !.file_size = SizeOf(raw), !.cur = ""]
    /\ writing' = writing \ {upl.cur}
    /\ UNCHANGED <<defaultSettings, coll, nextId, files, upd, get, del,
                   calls, res>>

\* 'file': the part has been written
uploadLogo_file(raw) ==
    /\ ~ReactionQueued
    /\ upl.pc = "part"
    /\ getCorrectFileName(raw) = upl.cur
    /\ upl' = [upl EXCEPT !.pc = "parsing", !.file_name = Str(upl.cur),
                          !.file_size = SizeOf(raw), !.cur = ""]
    /\ writing' = writing \ {upl.cur}
    /\ UNCHANGED <<defaultSettings, coll, nextId, files, upd, get, del,
                   calls, res>>

\* 'error': the parser fails; no 'end' follows
uploadLogo_error ==
    /\ ~ReactionQueued
    /\ upl.pc \in {"parsing", "part"}
    /\ upl' = IdleUpl
    /\ res' = [status |-> 500, body |-> getErrorMessage("parse error")]
    /\ UNCHANGED <<defaultSettings, coll, nextId, files, writing, upd, get,
                   del, calls>>

\* an 'end' handler that does not test file_name
uploadLogo_end_noTest ==
    /\ ~ReactionQueued
    /\ upl.pc = "parsing"
    /\ upl' = IdleUpl
    /\ upd' = Started("upl", updateSettings("logo_file" :> upl.file_name))
    /\ res' = [status |-> 200,
                body |-> ("file" :> upl.file_name) @@
                         ("size" :> Num(upl.file_size))]
    /\ UNCHANGED <<defaultSettings, coll, nextId, files, writing, get, del, calls>>

\* 'end': the whole request has been received and its files flushed
uploadLogo_end ==
    /\ ~ReactionQueued
    /\ upl.pc = "parsing"
    /\ upl' = IdleUpl
    /\ IF Truthy(upl.file_name)
       THEN /\ upd' = Started("upl", updateSettings("logo_file" :> upl.file_name))
            /\ res' = [status |-> 200,
                        body |-> ("file" :> upl.file_name) @@
                                 ("size" :> Num(upl.file_size))]
       ELSE /\ res' = [status |-> 400,
                        body |-> getErrorMessage("Required fields are missing")]
            /\ UNCHANGED upd
    /\ UNCHANGED <<defaultSettings, coll, nextId, files, writing, get, del, calls>>

(***************************************************************************)
(* The specification.                                                      *)
(***************************************************************************)
Next ==
    \/ \E u \in ApiUpdaters, data \in Inputs : updateSettings_call(u, data)
    \/ \E u \in Updaters : insertDefaultSettingsIfEmpty_count(u)
    \/ \E u \in Updaters : insertDefaultSettingsIfEmpty_then(u)
    \/ \E u \in Updaters : insertOne_exec(u)
    \/ \E u \in Updaters : updateOne_exec(u)
    \/ \E u \in Updaters : updateSettings_findOne(u)
    \/ \E u \in Updaters : updateSettings_return(u)
    \/ getSettings_call
    \/ getSettings_findOne
    \/ getSettings_return
    \/ deleteLogo_call
    \/ deleteLogo_findOne
    \/ deleteLogo_changeProperties
    \/ deleteLogo_then
    \/ unlink_exec
    \/ unlink_callback
    \/ uploadLogo_call
    \/ \E raw \in RawNames : uploadLogo_fileBegin(raw)
    \/ \E raw \in RawNames : uploadLogo_file(raw)
    \/ uploadLogo_error
    \/ uploadLogo_end

Spec == Init /\ [][Next]_vars

\* the steps the server takes by itself once a call is in flight: the
\* answers of the repository and of the filesystem, and the callbacks the
\* event loop runs on them
UpdateStep(u) ==
    \/ insertDefaultSettingsIfEmpty_count(u)
    \/ insertDefaultSettingsIfEmpty_then(u)
    \/ insertOne_exec(u)
    \/ updateOne_exec(u)
    \/ updateSettings_findOne(u)
    \/ updateSettings_return(u)

DeleteStep ==
    \/ deleteLogo_findOne
    \/ deleteLogo_changeProperties
    \/ deleteLogo_then
    \/ unlink_exec
    \/ unlink_callback

\* Every request sent to the repository or to the filesystem is answered,
\* and the event loop runs every callback that is ready.  The callers and
\* the client that streams an upload are under no obligation.
FairSpec ==
    /\ Spec
    /\ WF_vars(DeleteStep)
    /\ \A u \in Updaters : WF_vars(UpdateStep(u))

(***************************************************************************)
(* Properties.                                                             *)
(***************************************************************************)
\* an object without its undefined-valued keys (what JSON carries)
Defined(obj) == [k \in {j \in DOMAIN obj : obj[j] # Undef} |-> obj[k]]

\* view is what the claim says of a read of the record snap (EmptyObj when
\* no record is persisted)
ViewOfRecord(snap, view) ==
    /\ \A k \in Fields :
        /\ k \in DOMAIN view
        /\ view[k] # Undef
        /\ view[k] = IF k \in DOMAIN snap THEN snap[k] ELSE constructor[k]
    /\ snap = EmptyObj => Defined(view) = Assign(constructor, "logo" :> Null)

\* C1: the view returned by getSettings (alone, inside updateSettings or
\* inside deleteLogo) holds, for every recognized field, the persisted
\* record's value when the record has the field and the constructor's
\* default otherwise; every recognized field is present and not undefined;
\* with no record persisted the view is the constructor's defaults plus
\* logo = null.  The record is the one the read found, still persisted
\* when the read returns.
C1_ViewIsRecordOverOriginalDefaults ==
    [][ /\ (get.pc = "found" /\ get'.pc = "idle" /\ get.snap = findOne(coll))
            => ViewOfRecord(get.snap, defaultSettings')
        /\ (del.pc = "found" /\ del'.pc # "found" /\ del.snap = findOne(coll))
            => ViewOfRecord(del.snap, defaultSettings')
        /\ \A u \in Updaters :
            (upd[u].pc = "found" /\ upd'[u].pc = "idle"
                /\ upd[u].snap = findOne(coll))
            => ViewOfRecord(upd[u].snap, defaultSettings') ]_vars

\* a read is about to return the view of a record that lacks fields, after
\* an earlier read has written into this.defaultSettings
C1_Witness ==
    /\ get.pc = "found"
    /\ get.snap = findOne(coll)
    /\ Len(coll) > 0
    /\ "currency_code" \in DOMAIN get.snap
    /\ get.snap["currency_code"] # constructor["currency_code"]
    /\ "language" \notin DOMAIN get.snap
    /\ "logo" \in DOMAIN defaultSettings
    /\ defaultSettings["currency_code"] = get.snap["currency_code"]

\* C2: every field of a persisted record other than _id is a recognized
\* settings field; logo is never persisted.
C2_OnlyRecognizedFieldsPersisted ==
    \A i \in 1..Len(coll) : DOMAIN coll[i] \subseteq Fields \cup {"_id"}

\* C3: an updateSettings call whose input has zero keys fails at validation
\* and never reaches the repository: no default-seed insert, no upsert.
C3_EmptyInputNeverReachesRepository ==
    \A u \in Updaters :
        (Active(upd[u]) /\ DOMAIN upd[u].data = {}) =>
            /\ ~upd[u].seeded
            /\ upd[u].pc \notin {"find", "found"}

\* C4: for every input, getValidDocumentForUpdate raises no error because of
\* a key that is not a recognized field, and the keys of the patch are
\* exactly the recognized fields the input defines.
C4_UnknownKeysIgnored ==
    \A data \in Inputs :
        DOMAIN data # {} =>
            LET r == getValidDocumentForUpdate(defaultSettings, data) IN
            /\ r.kind = "patch"
            /\ DOMAIN r.doc = {k \in Fields : Prop(data, k) # Undef}

\* the value C5 expects of field k after the update t
ExpectedAfter(t, k) ==
    IF Prop(t.data, k) # Undef THEN CoerceField(k, t.data[k]) ELSE t.pre[k]

\* C5: when updateSettings(input), input not empty, completes with no other
\* updateSettings call in flight during its run, the view it returns and
\* the view of a read made next hold the coerced input value for every
\* recognized field the input defines and, for every other recognized
\* field, the value the view held just before the update.
C5_UpdateSetsInputKeepsRest ==
    [][ \A u \in Updaters :
          (upd[u].pc = "found" /\ upd'[u].pc = "idle"
              /\ DOMAIN upd[u].data # {} /\ upd[u].alone)
          => \A k \in Fields :
                /\ defaultSettings'[k] = ExpectedAfter(upd[u], k)
                /\ changeProperties(defaultSettings', findOne(coll'))[k]
                      = ExpectedAfter(upd[u], k) ]_vars

\* an update of a record that held other values has been written and read
\* back, and is about to return
C5_Witness ==
    \E u \in Updaters :
        /\ upd[u].pc = "found"
        /\ upd[u].alone
        /\ upd[u].count > 0
        /\ Prop(upd[u].data, "currency_code") = Str("EUR")
        /\ upd[u].pre["currency_code"] = Str("GBP")
        /\ upd[u].pre["decimal_number"] = Num(3)
        /\ upd[u].pre["language"] = Str("en")
        /\ upd[u].snap = findOne(coll)
        /\ upd[u].snap["currency_code"] = Str("EUR")
        /\ upd[u].snap["decimal_number"] = Num(0)

\* C6: an updateSettings call that observed zero records runs the
\* default-seed insert before its upsert; when it completes (no other
\* updateSettings call in flight during its run) the repository holds one
\* record with every recognized field, holding the constructor's default
\* for every field not in the patch, and a read shows those defaults.
C6_FirstUpdateSeedsDefaults ==
    [][ \A u \in Updaters :
          /\ (upd'[u].pc \in {"upsert", "find", "found"} /\ upd'[u].count = 0)
                => upd'[u].seeded
          /\ (upd[u].pc = "found" /\ upd'[u].pc = "idle"
                /\ upd[u].count = 0 /\ upd[u].alone)
             => /\ upd[u].seeded
                /\ Len(coll') = 1
                /\ Fields \subseteq DOMAIN coll'[1]
                /\ \A k \in Fields \ DOMAIN upd[u].patch :
                      /\ coll'[1][k] = constructor[k]
                      /\ changeProperties(defaultSettings', findOne(coll'))[k]
                            = constructor[k] ]_vars

\* the first update is about to return after a read had been served: the
\* seeded record carries the logo key the read left in this.defaultSettings
C6_Witness ==
    \E u \in Updaters :
        /\ upd[u].pc = "found" /\ upd[u].count = 0
        /\ upd[u].alone /\ upd[u].seeded
        /\ Len(coll) = 1
        /\ "logo" \in DOMAIN coll[1]
        /\ coll[1]["currency_code"] = Str("EUR")
        /\ coll[1]["language"] = Str("en")

\* C7: the repository never holds more than one settings record.
C7_AtMostOneRecord == Len(coll) <= 1

IsPositiveInteger(v) == v.t = "num" /\ v.n > 0

\* C8: products_limit is a positive integer in every persisted record and
\* in every view (the views are this.defaultSettings itself).
C8_ProductsLimitPositive ==
    /\ \A i \in 1..Len(coll) :
          "products_limit" \in DOMAIN coll[i]
              => IsPositiveInteger(coll[i]["products_limit"])
    /\ IsPositiveInteger(defaultSettings["products_limit"])

\* decimal_number as the claim states it: the positive number the numeric
\* utility returns, 0 when the utility rejects the value
DecimalNumberOf(v) ==
    LET n == getNumberIfPositive(v) IN
    IF n.t = "num" /\ n.n > 0 THEN n ELSE Num(0)

PatchDecimalOk(t) ==
    (t.kind = "patch" /\ Prop(t.data, "decimal_number") # Undef) =>
        /\ "decimal_number" \in DOMAIN t.patch
        /\ t.patch["decimal_number"].t = "num"
        /\ t.patch["decimal_number"].n >= 0
        /\ t.patch["decimal_number"] = DecimalNumberOf(t.data["decimal_number"])

\* C9: the patch built for an input that carries decimal_number holds a
\* non-negative number for it (the positive number of the numeric utility,
\* else 0), and the persisted decimal_number is never negative nor an
\* invalid sentinel.
C9_DecimalNumberNonNegative ==
    /\ \A u \in Updaters : PatchDecimalOk(upd[u])
    /\ \A i \in 1..Len(coll) :
          "decimal_number" \in DOMAIN coll[i] =>
              coll[i]["decimal_number"].t = "num" /\ coll[i]["decimal_number"].n >= 0

\* the input decimal_number: -5 has been patched, persisted and read back as 0
C9_Witness ==
    \E u \in Updaters :
        /\ upd[u].pc = "found"
        /\ Prop(upd[u].data, "decimal_number") = Num(0 - 5)
        /\ upd[u].patch["decimal_number"] = Num(0)
        /\ upd[u].snap["decimal_number"] = Num(0)

\* C10: a deleteLogo whose read found no logo file in the settings (no
\* record, or logo_file null, absent or empty) is a no-op: its callback
\* requests no unlink, calls no updateSettings and leaves the persisted
\* records unchanged.
C10_DeleteWithoutLogoIsNoOp ==
    [][ (del.pc = "view" /\ del'.pc # "view" /\ ~HasLogoFile(del.snap))
        => (del'.pc = "idle" /\ coll' = coll /\ files' = files /\ upd' = upd) ]_vars

(***************************************************************************)
(* The service started over a repository in which a logo has been          *)
(* uploaded, and called without any update of logo_file through the API:   *)
(* the record names a logo file only through uploadLogo and deleteLogo.    *)
(***************************************************************************)
\* the record and the upload directory an upload of 'x.png' into an empty
\* repository leaves
UploadedRecord ==
    Assign(constructor, ("_id" :> Oid(0)) @@ ("logo_file" :> Str("x.png")))

LogoInit ==
    /\ defaultSettings = constructor
    /\ \/ coll \in InitialCollections /\ files = {}
       \/ coll = << UploadedRecord >> /\ files = {"x.png"}
    /\ nextId = 1
    /\ writing = {}
    /\ upd = [u \in Updaters |-> IdleUpd]
    /\ get = IdleGet
    /\ del = IdleDel
    /\ upl = IdleUpl
    /\ calls = 0
    /\ res = NoResponse

LogoNext ==
    \/ \E u \in ApiUpdaters :
         \E data \in {d \in Inputs : Prop(d, "logo_file") = Undef} :
            updateSettings_call(u, data)
    \/ \E u \in Updaters : UpdateStep(u)
    \/ getSettings_call
    \/ getSettings_findOne
    \/ getSettings_return
    \/ deleteLogo_call
    \/ DeleteStep
    \/ uploadLogo_call
    \/ \E raw \in RawNames : uploadLogo_fileBegin(raw)
    \/ \E raw \in RawNames : uploadLogo_file(raw)
    \/ uploadLogo_error
    \/ uploadLogo_end

LogoSpec == LogoInit /\ [][LogoNext]_vars

\* the update deleteLogo issues has been written and the record names no
\* logo file
LogoFileCleared == upd["del"].pc = "find" /\ ~HasLogoFile(findOne(coll))

\* C11 as a property of the fair behaviours: once deleteLogo has asked for
\* the deletion of the file, the reference is eventually cleared.
C11_EventuallyCleared == (del.pc = "unlink") ~> LogoFileCleared

\* C11: a deleteLogo whose read found a logo file in the settings asks for
\* the deletion of that file; whether the file existed or not, the
\* callback of the deletion issues an update whose patch is logo_file = '';
\* that update is never rejected and no step of it can be blocked; its
\* upsert leaves a record that names no logo file; when it returns with no
\* other updateSettings call in flight during its run, the view it returns
\* and the view of a read made next have logo = null.
C11_DeleteLogoClearsLogoFile ==
    [][ /\ (del.pc = "view" /\ del'.pc # "view" /\ HasLogoFile(del.snap))
            => /\ del'.pc = "unlink"
               /\ Str(del'.file) = del.snap["logo_file"]
        /\ (del.pc = "unlink" /\ del'.pc # "unlink")
            => (del'.pc = "unlinked" /\ del.file \notin files')
        /\ (del.pc = "unlinked" /\ del'.pc # "unlinked")
            => /\ upd'["del"].pc = "count"
               /\ upd'["del"].patch = ("logo_file" :> Str(""))
        /\ (del.pc \in {"unlink", "unlinked"}) => ENABLED DeleteStep
        /\ (Active(upd["del"]) /\ ~ReactionQueued) => ENABLED UpdateStep("del")
        /\ (Active(upd["del"]) /\ ~Active(upd'["del"]))
            => upd["del"].pc = "found"
        /\ (upd["del"].pc = "upsert" /\ upd'["del"].pc # "upsert")
            => (upd'["del"].pc = "find" /\ ~HasLogoFile(findOne(coll')))
        /\ (upd["del"].pc = "found" /\ upd'["del"].pc = "idle"
                /\ upd["del"].alone)
            => /\ ~HasLogoFile(findOne(coll'))
               /\ defaultSettings'["logo"] = Null
               /\ changeProperties(defaultSettings', findOne(coll'))["logo"]
                     = Null ]_vars

\* C12: when the parse of an upload request completes and no file part has
\* been received, the response is status 400 with the message 'Required
\* fields are missing', updateSettings is not called and the persisted
\* records are unchanged.
C12_UploadWithoutFileIs400 ==
    [][ (upl.pc = "parsing" /\ upl'.pc = "idle" /\ res'.status # 500
            /\ upl.parts = 0)
        => /\ res'.status = 400
           /\ res'.body = ("error" :> Bool(TRUE)) @@
                           ("message" :> Str("Required fields are missing"))
           /\ upd' = upd
           /\ coll' = coll ]_vars

\* an upload without file part has been answered; a record is persisted
\* and no update is in flight
C12_Witness ==
    /\ res.status = 400
    /\ upl.pc = "idle"
    /\ Len(coll) > 0
    /\ \A u \in Updaters : ~Active(upd[u])

\* C13: this.defaultSettings always has exactly the keys and values the
\* constructor gave it.
C13_DefaultsTableUnchanged == defaultSettings = constructor

\* the values the calls of the model may write for field k
WrittenValues(k) ==
    {CoerceField(k, d[k]) : d \in {e \in Inputs : Prop(e, k) # Undef}}

\* the fields no call of the model patches
NeverPatched ==
    {k \in Fields : k # "logo_file" /\ \A d \in Inputs : Prop(d, k) = Undef}

\* C14: an updateSettings call of the API that observed an empty repository
\* and runs together with another call ends by returning, its patch
\* upserted: it is not lost to the default-seed insert.  The read it
\* returns holds, for every field of its patch, one of the values written
\* for that field, and the constructor's default for every field no call
\* patches.
C14_ConcurrentFirstUpdatesKeepPatches ==
    [][ \A u \in ApiUpdaters :
          (Active(upd[u]) /\ ~Active(upd'[u]) /\ DOMAIN upd[u].patch # {}
              /\ upd[u].count = 0 /\ ~upd[u].alone)
          => /\ upd[u].pc = "found"
             /\ \A k \in DOMAIN upd[u].patch :
                   defaultSettings'[k] \in WrittenValues(k)
             /\ \A k \in NeverPatched :
                   defaultSettings'[k] = constructor[k] ]_vars

\* the file names the persisted records reference
ReferencedFiles ==
    {coll[i]["logo_file"].s : i \in {j \in 1..Len(coll) : HasLogoFile(coll[j])}}

\* C15: the update of an upload is issued by the 'end' step only, for a
\* name whose file is no longer being written, and it is written to the
\* record while that file is not being written; and in no state does a
\* record reference a file that an upload is still writing.
C15_NoPartialFileReferenced ==
    [][ /\ (~Active(upd["upl"]) /\ Active(upd'["upl"]))
            => /\ upl.pc = "parsing" /\ upl'.pc = "idle"
               /\ upd'["upl"].patch["logo_file"].s \notin writing
        /\ (upd["upl"].pc = "upsert" /\ upd'["upl"].pc = "find")
            => upd["upl"].patch["logo_file"].s \notin writing
        /\ ReferencedFiles' \cap writing' = {} ]_vars

\* records as findOne may yield them, for the rule of logo: logo_file and
\* domain absent, null, empty or set
LogoRecords ==
    { EmptyObj,
      "logo_file" :> Null,
      "logo_file" :> Str(""),
      "logo_file" :> Str("x.png"),
      "domain" :> Null,
      ("logo_file" :> Str("x.png")) @@ ("domain" :> Null),
      ("logo_file" :> Str("")) @@ ("domain" :> Str("http://shop.test")),
      ("logo_file" :> Str("x.png")) @@ ("domain" :> Str("http://shop.test")) }

\* the rule of logo in the view v
LogoRule(v) ==
    LET lf == Prop(v, "logo_file") IN
    /\ "logo" \in DOMAIN v
    /\ (v["logo"] = Null) <=> (lf \in {Null, Undef, Str("")})
    /\ v["domain"].t = "str"
    /\ v["logo"] # Null =>
          v["logo"] = Str(urlResolve(v["domain"].s, filesUploadUrl \o "/" \o lf.s))

\* a getSettings (alone, in updateSettings, in deleteLogo) returns its view
ReturnsView ==
    \/ get.pc = "found" /\ get'.pc = "idle"
    \/ del.pc = "found" /\ del'.pc # "found"
    \/ \E u \in Updaters : upd[u].pc = "found" /\ upd'[u].pc = "idle"

\* C16: the view every getSettings returns (alone, in updateSettings, in
\* deleteLogo) follows the rule of logo: logo is null exactly when
\* logo_file is null, absent or empty, and is otherwise the resolution of
\* the upload-path segment, '/' and logo_file against domain.  The same
\* for the view it would have returned had it read any other record: a
\* null domain is taken as '', and logo_file 'x.png' with domain
\* 'http://shop.test' gives 'http://shop.test/x.png'.
C16_LogoFollowsLogoFile ==
    [][ ReturnsView =>
        /\ LogoRule(defaultSettings')
        /\ \A rec \in LogoRecords :
              LET v == changeProperties(defaultSettings, rec) IN
              /\ LogoRule(v)
              /\ Prop(rec, "domain") = Null => v["domain"] = Str("")
              /\ (Prop(rec, "logo_file") = Str("x.png")
                    /\ Prop(rec, "domain") = Str("http://shop.test"))
                  => v["logo"] = Str("http://shop.test/x.png") ]_vars

\* a read is about to return the view of a record that names a logo file
\* and a domain with a path
C16_Witness ==
    /\ get.pc = "found"
    /\ Prop(get.snap, "logo_file") = Str("x.png")
    /\ Prop(get.snap, "domain") = Str("http://shop.test/store/index")
    /\ changeProperties(defaultSettings, get.snap)["logo"]
          = Str("http://shop.test/x.png")

\* C17: every 'file' event replaces the name and size the request has kept
\* by those of the part just received, and no upload event but 'end'
\* issues an update; 'end' of a request that received parts reports the
\* name and size kept, and issues one update, whose patch is that name as
\* logo_file.
C17_LastFilePartIsKept ==
    [][ /\ (upl.pc = "part" /\ upl'.pc = "parsing")
            => /\ upl'.file_name = Str(upl.cur)
               /\ \E raw \in RawNames :
                     /\ getCorrectFileName(raw) = upl.cur
                     /\ upl'.file_size = SizeOf(raw)
        /\ (upl.pc # "idle" /\ upl'.pc # "idle") => upd'["upl"] = upd["upl"]
        /\ (upl.pc = "parsing" /\ upl'.pc = "idle" /\ res'.status # 500
                /\ upl.parts > 0)
            => /\ res'.status = 200
               /\ res'.body = ("file" :> upl.file_name) @@
                               ("size" :> Num(upl.file_size))
               /\ ~Active(upd["upl"])
               /\ upd'["upl"].pc = "count"
               /\ upd'["upl"].patch = ("logo_file" :> upl.file_name)
               /\ \A u \in Updaters \ {"upl"} : upd'[u].pc = upd[u].pc ]_vars

\* a request with two parts of different names has ended: the second name
\* is reported and is the patch of the update in flight
C17_Witness ==
    /\ calls = 1
    /\ files = {"my-logo.png", "x.png"}
    /\ res.status = 200
    /\ res.body = ("file" :> Str("x.png")) @@ ("size" :> Num(10))
    /\ upd["upl"].pc = "count"
    /\ upd["upl"].patch = ("logo_file" :> Str("x.png"))

\* no upload, delete or update is in flight
Quiescent ==
    /\ upl.pc = "idle"
    /\ del.pc = "idle"
    /\ \A u \in Updaters : ~Active(upd[u])

\* C18: in every state with no upload, delete or update in flight, every
\* logo file a persisted record names exists in the upload directory.
C18_ReferencedFileExists == Quiescent => ReferencedFiles \subseteq files

\* C19: when uploadLogo sends its success response for a file name, the
\* persisted record already holds that name as logo_file, and the update
\* that writes it is no longer in flight (it has succeeded).
C19_ResponseAfterRecordWritten ==
    [][ (upl.pc = "parsing" /\ upl'.pc = "idle" /\ res'.status = 200)
        => /\ Prop(findOne(coll'), "logo_file") = res'.body["file"]
           /\ ~Active(upd'["upl"]) ]_vars
====
